---- MODULE Spec2Model ----
(***************************************************************************)
(* Post-processing effect pipeline of the DirectX 11 engine                *)
(* (src/Graphics/Shader.cpp, PostProcessEffect_Base / PostProcessManager). *)
(*                                                                         *)
(* A COM pointer is modelled by a BOOLEAN: TRUE is a live object, FALSE is *)
(* nullptr.  A surface handed to Apply is one of the strings "input" (the  *)
(* caller's scene image), "final" (the caller's output target), "RT1",     *)
(* "RT2" (the two ping-pong targets) or "null".                            *)
(***************************************************************************)
EXTENDS Integers, Sequences, FiniteSets, TLC

\* ---------------------------------------------------------------- bounds
\* Longest m_effectOrder the model lets AddEffect build.
MaxOrder == 3

\* ------------------------------------------------------------- inputs
\* The descriptors the hosting application adds (PostProcessEffect values).
EffectTypes == {"Grayscale", "Bloom", "Vignette"}

\* Resolutions passed to PostProcessManager::Initialize.
Widths == {1}
Heights == {1}

\* An int member that no constructor initialised: it holds no definite
\* value, and a read of it yields any of Indeterminate.
Uninitialized == -1
Indeterminate == {0} \cup Widths

\* Values of PostProcessParams::intensity the application may store.
ParamValues == {0, 1}

\* PostProcessParams() default constructor: intensity(1.0f).
DefaultParams == 1

\* Which creation call of PostProcessEffect_Base::Initialize fails in
\* AddEffect: none, the vertex shader's, the pixel shader's or CreateBuffer.
EffectFailures == {"none", "vs", "ps", "buffer"}

\* The same for the Initialize of CopyTexture's static copy effect, whose
\* instance stays alive: none or the pixel shader's.
CopyFailures == {"none", "ps"}

\* Which creation call of PostProcessManager::Initialize fails: 0 none,
\* 1..6 the six calls of CreateRenderTargets in order (5 is the render
\* target view of the second surface), 7 CreateSamplerState.
InitFailures == {0, 5}

VARIABLES
    m_device,               \* ID3D11Device* of the manager
    m_width, m_height,      \* manager resolution
    m_renderTarget1, m_renderTargetView1, m_shaderResourceView1,
    m_renderTarget2, m_renderTargetView2, m_shaderResourceView2,
    m_samplerState,
    textureSize,            \* <<Width, Height>> of the D3D11_TEXTURE2D_DESC
                            \* each live texture was created with
    m_effects,              \* unordered_map<PostProcessEffect, unique_ptr<..>>
    m_effectOrder,          \* vector<PostProcessEffect>
    m_parameters,           \* PostProcessParams
    effect,                 \* a PostProcessEffect_Base the application made
                            \* and drives itself, outside any manager: <<>>
                            \* or <<the instance, history of its parameter
                            \* buffer: CreateBuffer successes and Release()
                            \* calls so far>>
    copyEffect,             \* function-local static of CopyTexture: <<>> is nullptr
    passes,                 \* Apply calls that reached the draw in the last Process
    releases,               \* parameter-buffer Release() calls of the last operation
    resources,              \* what the last operation did to the manager's
                            \* seven COM members: the members it created,
                            \* released, and lost (overwrote while they
                            \* still pointed at a live object)
    lastCall,               \* the operation that produced this state
    before,                 \* history: <<the manager as it was when the call
                            \* began>> after AddEffect(D), RemoveEffect(D),
                            \* Process, ResizeRenderTargets and
                            \* SetEffectEnabled(B, false), kept through a
                            \* SetEffectEnabled(B, true) that follows the
                            \* latter at once; <<>> otherwise
    crashed                 \* a null shader pointer was dereferenced and the process died

rtvars == <<m_renderTarget1, m_renderTargetView1, m_shaderResourceView1,
            m_renderTarget2, m_renderTargetView2, m_shaderResourceView2,
            m_samplerState, textureSize>>
chainvars == <<m_effects, m_effectOrder>>
mgrvars == <<m_device, m_width, m_height, rtvars, chainvars, m_parameters,
            copyEffect>>
vars == <<m_device, m_width, m_height, rtvars, chainvars, m_parameters, effect,
          copyEffect, passes, releases, resources, lastCall, before, crashed>>

\* The seven COM members, in the order of rtvars; CreateRenderTargets and
\* Initialize create them in this order.
Members ==
    <<"m_renderTarget1", "m_renderTargetView1", "m_shaderResourceView1",
      "m_renderTarget2", "m_renderTargetView2", "m_shaderResourceView2",
      "m_samplerState">>

\* The members among Members[i], i \in idx.
Named(idx) == {Members[i] : i \in idx}

\* textureSize of a manager without textures.
NoSize == <<0, 0>>
NoTextures == [m_renderTarget1 |-> NoSize, m_renderTarget2 |-> NoSize]

\* An operation that touches none of the seven members.
NoResources == [created |-> {}, released |-> {}, lost |-> {}]

\* m_effects of a freshly constructed manager, and after clear().
EmptyMap == [k \in {} |-> FALSE]

\* ------------------------------------------------ PostProcessEffect_Base
\* Constructor: m_enabled(true), the three pointers null; m_width and
\* m_height are not initialised.
NewEffect(type) ==
    [m_type |-> type, m_enabled |-> TRUE,
     m_vertexShader |-> FALSE, m_pixelShader |-> FALSE,
     m_parameterBuffer |-> FALSE,
     m_width |-> Uninitialized, m_height |-> Uninitialized]

\* PostProcessEffect_Base::Initialize.  `e` is the freshly constructed
\* instance, `fail` the creation call that fails.
EffectInitialize(e, device, width, height, fail) ==
    IF ~device THEN [ok |-> FALSE, inst |-> e]
    ELSE LET sized == [e EXCEPT !.m_width = width, !.m_height = height] IN
         IF fail = "vs" THEN [ok |-> FALSE, inst |-> sized]
         ELSE IF fail = "ps"
              THEN [ok |-> FALSE, inst |-> [sized EXCEPT !.m_vertexShader = TRUE]]
         ELSE IF fail = "buffer"
              THEN [ok |-> FALSE,
                    inst |-> [sized EXCEPT !.m_vertexShader = TRUE,
                                           !.m_pixelShader = TRUE]]
         ELSE [ok |-> TRUE,
               inst |-> [sized EXCEPT !.m_vertexShader = TRUE,
                                      !.m_pixelShader = TRUE,
                                      !.m_parameterBuffer = TRUE]]

\* Mutant of EffectShutdown: `m_parameterBuffer = nullptr` is left out, so
\* the pointer dangles after Release().
EffectShutdownKeepsPointer(e) ==
    [e EXCEPT !.m_vertexShader = FALSE, !.m_pixelShader = FALSE]

\* PostProcessEffect_Base::Shutdown: the instance afterwards.
EffectShutdown(e) ==
    [e EXCEPT !.m_parameterBuffer = FALSE, !.m_vertexShader = FALSE,
              !.m_pixelShader = FALSE]

\* Number of m_parameterBuffer->Release() calls one Shutdown makes.
EffectShutdownReleases(e) == IF e.m_parameterBuffer THEN 1 ELSE 0

\* Destroying an instance on which Shutdown was already called explicitly:
\* Shutdown, then ~PostProcessEffect_Base calls Shutdown again.
DestroyReleases(e) ==
    EffectShutdownReleases(e) + EffectShutdownReleases(EffectShutdown(e))

\* SetEnabled
EffectSetEnabled(e, enabled) == [e EXCEPT !.m_enabled = enabled]

\* Mutant of ApplyActs: the guard without `!m_enabled`.
ApplyActsWhenDisabled(e, context, inputTexture, outputTarget) ==
    context /\ inputTexture # "null" /\ outputTarget # "null"

\* The guard of PostProcessEffect_Base::Apply: TRUE when Apply goes on to
\* bind and draw.
ApplyActs(e, context, inputTexture, outputTarget) ==
    context /\ inputTexture # "null" /\ outputTarget # "null" /\ e.m_enabled

\* Apply dereferences m_vertexShader and m_pixelShader without a check.
ApplyDerefsNull(e) == ~e.m_vertexShader \/ ~e.m_pixelShader

\* One pass: what Apply binds and draws; `width` is the value it read from
\* m_width for the viewport.
Pass(e, inputTexture, outputTarget, params, width) ==
    [effect |-> e.m_type, input |-> inputTexture, output |-> outputTarget,
     params |-> params, width |-> width]

\* The values a read of e.m_width can yield.
ReadWidth(e) ==
    IF e.m_width = Uninitialized THEN Indeterminate ELSE {e.m_width}

\* --------------------------------------------------- PostProcessManager
RTV(useRT1) ==
    IF useRT1 THEN (IF m_renderTargetView1 THEN "RT1" ELSE "null")
    ELSE (IF m_renderTargetView2 THEN "RT2" ELSE "null")

SRV(useRT1) ==
    IF useRT1 THEN (IF m_shaderResourceView1 THEN "RT1" ELSE "null")
    ELSE (IF m_shaderResourceView2 THEN "RT2" ELSE "null")

\* Mutant of the loop of Process: `useRT1 = !useRT1` is left out, so every
\* intermediate pass uses the first surface.
RECURSIVE ProcessLoopNoFlip(_, _, _, _, _, _)
ProcessLoopNoFlip(order, effects, i, currentInput, useRT1, outputTarget) ==
    IF i > Len(order) THEN <<>>
    ELSE LET effectType == order[i] IN
         IF effectType \notin DOMAIN effects \/ ~effects[effectType].m_enabled
         THEN ProcessLoopNoFlip(order, effects, i + 1, currentInput, useRT1,
                                outputTarget)
         ELSE LET e == effects[effectType]
                  currentOutput == IF i = Len(order) THEN outputTarget
                                   ELSE RTV(useRT1)
                  applied == IF ApplyActs(e, TRUE, currentInput, currentOutput)
                             THEN <<Pass(e, currentInput, currentOutput,
                                         m_parameters, e.m_width)>>
                             ELSE <<>>
              IN IF i < Len(order)
                 THEN applied \o ProcessLoopNoFlip(order, effects, i + 1,
                                                   SRV(useRT1), useRT1,
                                                   outputTarget)
                 ELSE applied

\* Mutant of the loop of Process: `useRT1 = !useRT1` is also done for an
\* entry that is skipped (no instance, or disabled).
RECURSIVE ProcessLoopFlipsOnSkip(_, _, _, _, _, _)
ProcessLoopFlipsOnSkip(order, effects, i, currentInput, useRT1, outputTarget) ==
    IF i > Len(order) THEN <<>>
    ELSE LET effectType == order[i] IN
         IF effectType \notin DOMAIN effects \/ ~effects[effectType].m_enabled
         THEN ProcessLoopFlipsOnSkip(order, effects, i + 1, currentInput,
                                     ~useRT1, outputTarget)
         ELSE LET e == effects[effectType]
                  currentOutput == IF i = Len(order) THEN outputTarget
                                   ELSE RTV(useRT1)
                  applied == IF ApplyActs(e, TRUE, currentInput, currentOutput)
                             THEN <<Pass(e, currentInput, currentOutput,
                                         m_parameters, e.m_width)>>
                             ELSE <<>>
              IN IF i < Len(order)
                 THEN applied \o ProcessLoopFlipsOnSkip(order, effects, i + 1,
                                                        SRV(useRT1), ~useRT1,
                                                        outputTarget)
                 ELSE applied

\* Mutant of the loop of Process: Apply is handed a default-constructed
\* PostProcessParams, as CopyTexture does, instead of m_parameters.
RECURSIVE ProcessLoopEmptyParams(_, _, _, _, _, _)
ProcessLoopEmptyParams(order, effects, i, currentInput, useRT1, outputTarget) ==
    IF i > Len(order) THEN <<>>
    ELSE LET effectType == order[i] IN
         IF effectType \notin DOMAIN effects \/ ~effects[effectType].m_enabled
         THEN ProcessLoopEmptyParams(order, effects, i + 1, currentInput,
                                     useRT1, outputTarget)
         ELSE LET e == effects[effectType]
                  currentOutput == IF i = Len(order) THEN outputTarget
                                   ELSE RTV(useRT1)
                  applied == IF ApplyActs(e, TRUE, currentInput, currentOutput)
                             THEN <<Pass(e, currentInput, currentOutput,
                                         DefaultParams, e.m_width)>>
                             ELSE <<>>
              IN IF i < Len(order)
                 THEN applied \o ProcessLoopEmptyParams(order, effects, i + 1,
                                                        SRV(useRT1), ~useRT1,
                                                        outputTarget)
                 ELSE applied

\* The for loop of PostProcessManager::Process from index i on (1-based),
\* returning the passes it issues.
RECURSIVE ProcessLoop(_, _, _, _, _, _)
ProcessLoop(order, effects, i, currentInput, useRT1, outputTarget) ==
    IF i > Len(order) THEN <<>>
    ELSE LET effectType == order[i] IN
         IF effectType \notin DOMAIN effects \/ ~effects[effectType].m_enabled
         THEN ProcessLoop(order, effects, i + 1, currentInput, useRT1, outputTarget)
         ELSE LET e == effects[effectType]
                  currentOutput == IF i = Len(order) THEN outputTarget
                                   ELSE RTV(useRT1)
                  applied == IF ApplyActs(e, TRUE, currentInput, currentOutput)
                             THEN <<Pass(e, currentInput, currentOutput,
                                         m_parameters, e.m_width)>>
                             ELSE <<>>
              IN IF i < Len(order)
                 THEN applied \o ProcessLoop(order, effects, i + 1,
                                             SRV(useRT1), ~useRT1, outputTarget)
                 ELSE applied

Init ==
    /\ m_device = FALSE
    /\ m_width = 0 /\ m_height = 0
    /\ m_renderTarget1 = FALSE /\ m_renderTargetView1 = FALSE
    /\ m_shaderResourceView1 = FALSE
    /\ m_renderTarget2 = FALSE /\ m_renderTargetView2 = FALSE
    /\ m_shaderResourceView2 = FALSE
    /\ m_samplerState = FALSE
    /\ textureSize = NoTextures
    /\ m_effects = EmptyMap
    /\ m_effectOrder = <<>>
    /\ m_parameters = DefaultParams
    /\ effect = <<>>
    /\ copyEffect = <<>>
    /\ passes = <<>>
    /\ releases = 0
    /\ resources = NoResources
    /\ lastCall = [op |-> "constructor", effect |-> "None", flag |-> FALSE]
    /\ before = <<>>
    /\ crashed = FALSE

Call(op, descriptor, flag) == [op |-> op, effect |-> descriptor, flag |-> flag]

\* The manager's members at the start of a call on descriptor effectType.
Snapshot(effectType) ==
    <<[effect |-> effectType, m_effects |-> m_effects,
       m_effectOrder |-> m_effectOrder, m_parameters |-> m_parameters,
       rt |-> rtvars]>>

\* PostProcessManager::Initialize(device, width, height), CreateRenderTargets
\* inlined.  A creation call that fails nulls its out-pointer (COM rule) and
\* the calls after it are not made.
Initialize(device, width, height, fail) ==
    /\ ~crashed
    /\ UNCHANGED effect
    /\ before' = <<>>
    /\ lastCall' = [op |-> "Initialize", effect |-> "None",
                    flag |-> device /\ fail = 0,
                    device |-> device, width |-> width, height |-> height]
    /\ passes' = <<>> /\ releases' = 0
    /\ UNCHANGED <<chainvars, m_parameters, copyEffect, crashed>>
    /\ IF ~device
       THEN /\ UNCHANGED <<m_device, m_width, m_height, rtvars>>
            /\ resources' = NoResources
       ELSE /\ resources' =
                 LET called == IF fail = 0 THEN 1..7 ELSE 1..fail
                     made == IF fail = 0 THEN 1..7 ELSE 1..(fail - 1)
                 IN [created |-> Named(made), released |-> {},
                     lost |-> Named({i \in called : rtvars[i]})]
            /\ m_device' = TRUE
            /\ m_width' = width /\ m_height' = height
            /\ m_renderTarget1' = IF fail = 1 THEN FALSE ELSE TRUE
            /\ m_renderTargetView1' =
                 IF fail = 1 THEN m_renderTargetView1 ELSE (fail # 2)
            /\ m_shaderResourceView1' =
                 IF fail \in 1..2 THEN m_shaderResourceView1 ELSE (fail # 3)
            /\ m_renderTarget2' =
                 IF fail \in 1..3 THEN m_renderTarget2 ELSE (fail # 4)
            /\ m_renderTargetView2' =
                 IF fail \in 1..4 THEN m_renderTargetView2 ELSE (fail # 5)
            /\ m_shaderResourceView2' =
                 IF fail \in 1..5 THEN m_shaderResourceView2 ELSE (fail # 6)
            /\ m_samplerState' =
                 IF fail \in 1..6 THEN m_samplerState ELSE (fail # 7)
            /\ textureSize' =
                 [m_renderTarget1 |->
                     IF fail = 1 THEN NoSize ELSE <<width, height>>,
                  m_renderTarget2 |->
                     IF fail \in 1..3 THEN textureSize.m_renderTarget2
                     ELSE IF fail = 4 THEN NoSize ELSE <<width, height>>]

\* Sum of the parameter-buffer releases of destroying every stored instance.
RECURSIVE SumReleases(_, _)
SumReleases(effects, keys) ==
    IF keys = {} THEN 0
    ELSE LET k == CHOOSE x \in keys : TRUE
         IN DestroyReleases(effects[k]) + SumReleases(effects, keys \ {k})

\* PostProcessManager::Shutdown.  m_effectOrder, m_width and m_height are
\* not touched by the code.
Shutdown ==
    /\ ~crashed
    /\ UNCHANGED effect
    /\ before' = <<>>
    /\ lastCall' = Call("Shutdown", "None", FALSE)
    /\ passes' = <<>>
    /\ resources' = [created |-> {}, lost |-> {},
                     released |-> Named({i \in 1..7 : rtvars[i]})]
    /\ releases' = SumReleases(m_effects, DOMAIN m_effects)
    /\ m_effects' = EmptyMap
    /\ m_samplerState' = FALSE
    /\ m_shaderResourceView2' = FALSE /\ m_shaderResourceView1' = FALSE
    /\ m_renderTargetView2' = FALSE /\ m_renderTargetView1' = FALSE
    /\ m_renderTarget2' = FALSE /\ m_renderTarget1' = FALSE
    /\ textureSize' = NoTextures
    /\ m_device' = FALSE
    /\ UNCHANGED <<m_width, m_height, m_effectOrder, m_parameters,
                   copyEffect, crashed>>

\* Mutant of AddEffect: the descriptor is pushed on m_effectOrder before the
\* result of Initialize is looked at.
AddEffectPushesFirst(effectType) ==
    /\ ~crashed
    /\ UNCHANGED effect
    /\ resources' = NoResources
    /\ before' = Snapshot(effectType)
    /\ effectType \notin DOMAIN m_effects => Len(m_effectOrder) < MaxOrder
    /\ passes' = <<>> /\ releases' = 0
    /\ UNCHANGED <<m_device, m_width, m_height, rtvars, m_parameters,
                   copyEffect, crashed>>
    /\ IF effectType \in DOMAIN m_effects
       THEN /\ UNCHANGED chainvars
            /\ lastCall' = Call("AddEffect", effectType, FALSE)
       ELSE \E fail \in EffectFailures :
            LET r == EffectInitialize(NewEffect(effectType), m_device,
                                      m_width, m_height, fail)
            IN IF r.ok
               THEN /\ m_effectOrder' = Append(m_effectOrder, effectType)
                    /\ m_effects' = (effectType :> r.inst) @@ m_effects
                    /\ lastCall' = Call("AddEffect", effectType, TRUE)
               ELSE /\ m_effectOrder' = Append(m_effectOrder, effectType)
                    /\ UNCHANGED m_effects
                    /\ lastCall' = Call("AddEffect", effectType, FALSE)

\* Mutant of AddEffect: every stored effect gets an intermediate surface of
\* its own, created into m_renderTarget2.
AddEffectAllocates(effectType) ==
    /\ ~crashed
    /\ UNCHANGED effect
    /\ before' = Snapshot(effectType)
    /\ effectType \notin DOMAIN m_effects => Len(m_effectOrder) < MaxOrder
    /\ passes' = <<>> /\ releases' = 0
    /\ UNCHANGED <<m_device, m_width, m_height, m_renderTarget1,
                   m_renderTargetView1, m_shaderResourceView1,
                   m_renderTargetView2, m_shaderResourceView2,
                   m_samplerState, textureSize, m_parameters, copyEffect,
                   crashed>>
    /\ IF effectType \in DOMAIN m_effects
       THEN /\ UNCHANGED <<chainvars, m_renderTarget2>>
            /\ resources' = NoResources
            /\ lastCall' = Call("AddEffect", effectType, FALSE)
       ELSE \E fail \in EffectFailures :
            LET r == EffectInitialize(NewEffect(effectType), m_device,
                                      m_width, m_height, fail)
            IN IF r.ok
               THEN /\ m_renderTarget2' = TRUE
                    /\ resources' =
                          [created |-> {"m_renderTarget2"}, released |-> {},
                           lost |-> IF m_renderTarget2
                                    THEN {"m_renderTarget2"} ELSE {}]
                    /\ m_effectOrder' = Append(m_effectOrder, effectType)
                    /\ m_effects' = (effectType :> r.inst) @@ m_effects
                    /\ lastCall' = Call("AddEffect", effectType, TRUE)
               ELSE /\ UNCHANGED <<chainvars, m_renderTarget2>>
                    /\ resources' = NoResources
                    /\ lastCall' = Call("AddEffect", effectType, FALSE)

\* The six members of the Intermediate Surface Pair that are live.
LiveSurfaceMembers == Named({i \in 1..6 : rtvars[i]})

\* Mutant of ResizeRenderTargets: the new pair is created over the old
\* pointers, as CreateRenderTargets does, without releasing the old pair.
ResizeWithoutRelease(device, width, height, fail) ==
    /\ ~crashed
    /\ UNCHANGED effect
    /\ before' = Snapshot("None")
    /\ passes' = <<>> /\ releases' = 0
    /\ lastCall' = [op |-> "ResizeRenderTargets", effect |-> "None",
                    flag |-> device /\ fail = 0,
                    width |-> width, height |-> height]
    /\ UNCHANGED <<m_device, m_samplerState, chainvars, m_parameters,
                   copyEffect, crashed>>
    /\ IF ~device
       THEN /\ UNCHANGED <<m_width, m_height, m_renderTarget1,
                           m_renderTargetView1, m_shaderResourceView1,
                           m_renderTarget2, m_renderTargetView2,
                           m_shaderResourceView2, textureSize>>
            /\ resources' = NoResources
       ELSE LET ok == fail = 0 IN
            /\ m_width' = width /\ m_height' = height
            /\ m_renderTarget1' = ok /\ m_renderTargetView1' = ok
            /\ m_shaderResourceView1' = ok
            /\ m_renderTarget2' = ok /\ m_renderTargetView2' = ok
            /\ m_shaderResourceView2' = ok
            /\ textureSize' =
                  IF ok THEN [m_renderTarget1 |-> <<width, height>>,
                              m_renderTarget2 |-> <<width, height>>]
                  ELSE NoTextures
            /\ resources' =
                  [created |-> IF ok THEN Named(1..6) ELSE {},
                   released |-> {}, lost |-> LiveSurfaceMembers]

\* PostProcessManager::ResizeRenderTargets(device, width, height): declared
\* by the manager's header, defined nowhere in the sources; modelled from
\* the specification of Resize and Create of the Intermediate Surface Pair:
\* a null device is rejected; both old surfaces with their views are
\* destroyed, the resolution is stored and both surfaces are created anew;
\* if creation call `fail` fails, what was made is released and the pair is
\* left empty.
ResizeRenderTargets(device, width, height, fail) ==
    /\ ~crashed
    /\ UNCHANGED effect
    /\ before' = Snapshot("None")
    /\ passes' = <<>> /\ releases' = 0
    /\ lastCall' = [op |-> "ResizeRenderTargets", effect |-> "None",
                    flag |-> device /\ fail = 0,
                    width |-> width, height |-> height]
    /\ UNCHANGED <<m_device, m_samplerState, chainvars, m_parameters,
                   copyEffect, crashed>>
    /\ IF ~device
       THEN /\ UNCHANGED <<m_width, m_height, m_renderTarget1,
                           m_renderTargetView1, m_shaderResourceView1,
                           m_renderTarget2, m_renderTargetView2,
                           m_shaderResourceView2, textureSize>>
            /\ resources' = NoResources
       ELSE LET ok == fail = 0 IN
            /\ m_width' = width /\ m_height' = height
            /\ m_renderTarget1' = ok /\ m_renderTargetView1' = ok
            /\ m_shaderResourceView1' = ok
            /\ m_renderTarget2' = ok /\ m_renderTargetView2' = ok
            /\ m_shaderResourceView2' = ok
            /\ textureSize' =
                  IF ok THEN [m_renderTarget1 |-> <<width, height>>,
                              m_renderTarget2 |-> <<width, height>>]
                  ELSE NoTextures
            /\ resources' =
                  [created |-> IF ok THEN Named(1..6) ELSE {},
                   released |-> LiveSurfaceMembers, lost |-> {}]

\* Mutant of AddEffectCall: the descriptor is inserted at the front of
\* m_effectOrder instead of push_back.
AddEffectCallInsertsFront(effectType, history) ==
    /\ ~crashed
    /\ UNCHANGED effect
    /\ resources' = NoResources
    /\ before' = history
    /\ effectType \notin DOMAIN m_effects => Len(m_effectOrder) < MaxOrder
    /\ passes' = <<>> /\ releases' = 0
    /\ UNCHANGED <<m_device, m_width, m_height, rtvars, m_parameters,
                   copyEffect, crashed>>
    /\ IF effectType \in DOMAIN m_effects
       THEN /\ UNCHANGED chainvars
            /\ lastCall' = Call("AddEffect", effectType, FALSE)
       ELSE \E fail \in EffectFailures :
            LET r == EffectInitialize(NewEffect(effectType), m_device,
                                      m_width, m_height, fail)
            IN IF r.ok
               THEN /\ m_effectOrder' = <<effectType>> \o m_effectOrder
                    /\ m_effects' = (effectType :> r.inst) @@ m_effects
                    /\ lastCall' = Call("AddEffect", effectType, TRUE)
               ELSE /\ UNCHANGED chainvars
                    /\ lastCall' = Call("AddEffect", effectType, FALSE)

\* PostProcessManager::AddEffect(effectType), leaving `history` in the
\* history variable `before`.  `fail` is the creation call of the new
\* instance's Initialize that fails; no creation call is made for an effect
\* already stored.
AddEffectCall(effectType, history) ==
    /\ ~crashed
    /\ UNCHANGED effect
    /\ resources' = NoResources
    /\ before' = history
    /\ effectType \notin DOMAIN m_effects => Len(m_effectOrder) < MaxOrder
    /\ passes' = <<>> /\ releases' = 0
    /\ UNCHANGED <<m_device, m_width, m_height, rtvars, m_parameters,
                   copyEffect, crashed>>
    /\ IF effectType \in DOMAIN m_effects
       THEN /\ UNCHANGED chainvars
            /\ lastCall' = Call("AddEffect", effectType, FALSE)
       ELSE \E fail \in EffectFailures :
            LET r == EffectInitialize(NewEffect(effectType), m_device,
                                      m_width, m_height, fail)
            IN IF r.ok
               THEN /\ m_effectOrder' = Append(m_effectOrder, effectType)
                    /\ m_effects' = (effectType :> r.inst) @@ m_effects
                    /\ lastCall' = Call("AddEffect", effectType, TRUE)
               ELSE /\ UNCHANGED chainvars
                    /\ lastCall' = Call("AddEffect", effectType, FALSE)

\* PostProcessManager::AddEffect(effectType), remembering the manager as
\* it was when the call began.
AddEffect(effectType) == AddEffectCall(effectType, Snapshot(effectType))

\* std::find + erase: drop the first occurrence of x, if any.
RECURSIVE EraseFirst(_, _)
EraseFirst(seq, x) ==
    IF seq = <<>> THEN <<>>
    ELSE IF Head(seq) = x THEN Tail(seq)
    ELSE <<Head(seq)>> \o EraseFirst(Tail(seq), x)

\* unordered_map::erase(it)
MapErase(effects, key) ==
    [k \in DOMAIN effects \ {key} |-> effects[k]]

\* Mutant of RemoveEffect: the std::find / erase on m_effectOrder is made
\* outside the `if (it != m_effects.end())`, whether or not an instance was
\* found.
RemoveEffectByOrder(effectType) ==
    /\ ~crashed
    /\ UNCHANGED effect
    /\ resources' = NoResources
    /\ before' = Snapshot(effectType)
    /\ passes' = <<>>
    /\ UNCHANGED <<m_device, m_width, m_height, rtvars, m_parameters,
                   copyEffect, crashed>>
    /\ m_effectOrder' = EraseFirst(m_effectOrder, effectType)
    /\ IF effectType \in DOMAIN m_effects
       THEN /\ releases' = DestroyReleases(m_effects[effectType])
            /\ m_effects' = MapErase(m_effects, effectType)
            /\ lastCall' = Call("RemoveEffect", effectType, TRUE)
       ELSE /\ releases' = 0
            /\ UNCHANGED m_effects
            /\ lastCall' = Call("RemoveEffect", effectType, FALSE)

\* PostProcessManager::RemoveEffect(effectType)
RemoveEffect(effectType) ==
    /\ ~crashed
    /\ UNCHANGED effect
    /\ resources' = NoResources
    /\ before' = Snapshot(effectType)
    /\ passes' = <<>>
    /\ UNCHANGED <<m_device, m_width, m_height, rtvars, m_parameters,
                   copyEffect, crashed>>
    /\ IF effectType \in DOMAIN m_effects
       THEN /\ releases' = DestroyReleases(m_effects[effectType])
            /\ m_effects' = MapErase(m_effects, effectType)
            /\ m_effectOrder' = EraseFirst(m_effectOrder, effectType)
            /\ lastCall' = Call("RemoveEffect", effectType, TRUE)
       ELSE /\ releases' = 0
            /\ UNCHANGED chainvars
            /\ lastCall' = Call("RemoveEffect", effectType, FALSE)

\* The map after it->second->SetEnabled(enabled).
MapSetEnabled(effects, effectType, enabled) ==
    [effects EXCEPT ![effectType] = EffectSetEnabled(@, enabled)]

\* Mutant of SetEffectEnabled: enabling an effect appends its descriptor
\* again, so a re-enabled effect moves to the end of the chain.
SetEffectEnabledReappends(effectType, enabled) ==
    /\ ~crashed
    /\ UNCHANGED effect
    /\ resources' = NoResources
    /\ before' = IF ~enabled THEN Snapshot(effectType)
                 ELSE IF /\ before # <<>>
                         /\ lastCall = Call("SetEffectEnabled", effectType, FALSE)
                      THEN before
                      ELSE <<>>
    /\ passes' = <<>> /\ releases' = 0
    /\ lastCall' = Call("SetEffectEnabled", effectType, enabled)
    /\ UNCHANGED <<m_device, m_width, m_height, rtvars,
                   m_parameters, copyEffect, crashed>>
    /\ IF effectType \in DOMAIN m_effects
       THEN /\ m_effects' = MapSetEnabled(m_effects, effectType, enabled)
            /\ m_effectOrder' =
                  IF enabled
                  THEN Append(EraseFirst(m_effectOrder, effectType), effectType)
                  ELSE m_effectOrder
       ELSE UNCHANGED <<m_effects, m_effectOrder>>

\* PostProcessManager::SetEffectEnabled(effectType, enabled)
SetEffectEnabled(effectType, enabled) ==
    /\ ~crashed
    /\ UNCHANGED effect
    /\ resources' = NoResources
    /\ before' = IF ~enabled THEN Snapshot(effectType)
                 ELSE IF /\ before # <<>>
                         /\ lastCall = Call("SetEffectEnabled", effectType, FALSE)
                      THEN before
                      ELSE <<>>
    /\ passes' = <<>> /\ releases' = 0
    /\ lastCall' = Call("SetEffectEnabled", effectType, enabled)
    /\ UNCHANGED <<m_device, m_width, m_height, rtvars, m_effectOrder,
                   m_parameters, copyEffect, crashed>>
    /\ IF effectType \in DOMAIN m_effects
       THEN m_effects' = MapSetEnabled(m_effects, effectType, enabled)
       ELSE UNCHANGED m_effects

\* PostProcessManager::SetEffectParameters(params) and writes through
\* GetEffectParameters(), made by the application between frames.
SetEffectParameters(params) ==
    /\ ~crashed
    /\ UNCHANGED effect
    /\ resources' = NoResources
    /\ before' = <<>>
    /\ m_parameters' = params
    /\ passes' = <<>> /\ releases' = 0
    /\ lastCall' = Call("SetEffectParameters", "None", FALSE)
    /\ UNCHANGED <<m_device, m_width, m_height, rtvars, chainvars,
                   copyEffect, crashed>>

\* The tail of CopyTexture: copyEffect->Apply(context, input, output,
\* emptyParams) on the static instance `copy`.  Dereferencing a null shader
\* pointer is undefined: the process dies or the call goes on.
CopyApply(copy, context, input, output) ==
    /\ copyEffect' = <<copy>>
    /\ IF ~ApplyActs(copy, context, input, output)
       THEN passes' = <<>> /\ UNCHANGED crashed
       ELSE \E width \in ReadWidth(copy) :
            IF ApplyDerefsNull(copy)
            THEN \E ub \in {"crash", "proceed"} :
                    /\ crashed' = (ub = "crash")
                    /\ passes' = IF ub = "crash" THEN <<>>
                                 ELSE <<Pass(copy, input, output,
                                             DefaultParams, width)>>
            ELSE /\ passes' = <<Pass(copy, input, output, DefaultParams, width)>>
                 /\ UNCHANGED crashed

\* PostProcessManager::CopyTexture(context, input, output).  The static
\* copy effect is created on the first call that gets past the null checks,
\* with whatever Initialize leaves in it; its result is not checked.
CopyTexture(context, input, output) ==
    IF ~context \/ input = "null" \/ output = "null"
    THEN /\ passes' = <<>>
         /\ UNCHANGED <<copyEffect, crashed>>
    ELSE IF copyEffect = <<>>
    THEN \E fail \in CopyFailures :
            CopyApply(EffectInitialize(NewEffect("None"), m_device,
                                       m_width, m_height, fail).inst,
                      context, input, output)
    ELSE CopyApply(copyEffect[1], context, input, output)

\* PostProcessManager::Process(context, inputTexture, outputTarget)
Process(context, inputTexture, outputTarget) ==
    /\ ~crashed
    /\ UNCHANGED effect
    /\ resources' = NoResources
    /\ before' = Snapshot("None")
    /\ releases' = 0
    /\ lastCall' = Call("Process", "None",
                        context /\ inputTexture # "null" /\ outputTarget # "null")
    /\ UNCHANGED <<m_device, m_width, m_height, rtvars, chainvars, m_parameters>>
    /\ IF ~context \/ inputTexture = "null" \/ outputTarget = "null"
          \/ m_effectOrder = <<>>
       THEN CopyTexture(context, inputTexture, outputTarget)
       ELSE /\ passes' = ProcessLoop(m_effectOrder, m_effects, 1, inputTexture,
                                     TRUE, outputTarget)
            /\ UNCHANGED <<copyEffect, crashed>>

\* The calls of Process: with valid arguments, and with each argument null
\* in its turn.
ProcessArgs ==
    {<<TRUE, "input", "final">>, <<FALSE, "input", "final">>,
     <<TRUE, "null", "final">>, <<TRUE, "input", "null">>}

\* A null device makes Initialize return before any creation call, so
\* there is no failing call to choose.
Next ==
    \/ \E device \in BOOLEAN, width \in Widths, height \in Heights :
          \E fail \in IF device THEN InitFailures ELSE {0} :
             Initialize(device, width, height, fail)
    \/ Shutdown
    \/ \E effectType \in EffectTypes : AddEffect(effectType)
    \/ \E effectType \in EffectTypes : RemoveEffect(effectType)
    \/ \E effectType \in EffectTypes, enabled \in BOOLEAN :
          SetEffectEnabled(effectType, enabled)
    \/ \E args \in ProcessArgs : Process(args[1], args[2], args[3])

Spec == Init /\ [][Next]_vars

\* ------------------------------------------------------------------
\* The manager with the application writing the Parameter Block between
\* frames: the operations of Next, with every creation call of Initialize
\* succeeding, and SetEffectParameters.
NextParams ==
    \/ \E device \in BOOLEAN, width \in Widths, height \in Heights :
          Initialize(device, width, height, 0)
    \/ Shutdown
    \/ \E effectType \in EffectTypes : AddEffect(effectType)
    \/ \E effectType \in EffectTypes : RemoveEffect(effectType)
    \/ \E effectType \in EffectTypes, enabled \in BOOLEAN :
          SetEffectEnabled(effectType, enabled)
    \/ \E params \in ParamValues : SetEffectParameters(params)
    \/ \E args \in ProcessArgs : Process(args[1], args[2], args[3])

SpecParams == Init /\ [][NextParams]_vars

\* ------------------------------------------------------------------
\* A PostProcessEffect_Base driven directly through its public interface.
EffectSizes == {<<1, 1>>, <<2, 1>>}

\* The buffer history of an instance just constructed.
NoBuffers == [created |-> 0, released |-> 0]

\* PostProcessEffect_Base(type)
EffectConstruct(type) ==
    /\ ~crashed
    /\ effect' = <<NewEffect(type), NoBuffers>>
    /\ lastCall' = Call("PostProcessEffect_Base", type, TRUE)
    /\ passes' = <<>> /\ releases' = 0
    /\ resources' = NoResources /\ before' = <<>>
    /\ UNCHANGED <<mgrvars, crashed>>

\* effect.Initialize(device, width, height), the one Initialize call made on
\* a constructed instance.
EffectInit(device, width, height, fail) ==
    /\ ~crashed
    /\ effect # <<>> /\ effect[1] = NewEffect(effect[1].m_type)
    /\ LET r == EffectInitialize(effect[1], device, width, height, fail)
       IN /\ effect' = <<r.inst,
                         [effect[2] EXCEPT !.created =
                             @ + IF r.inst.m_parameterBuffer THEN 1 ELSE 0]>>
          /\ lastCall' = Call("Effect::Initialize", effect[1].m_type, r.ok)
    /\ passes' = <<>> /\ releases' = 0
    /\ resources' = NoResources /\ before' = <<>>
    /\ UNCHANGED <<mgrvars, crashed>>

\* effect.SetEnabled(enabled)
EffectEnable(enabled) ==
    /\ ~crashed
    /\ effect # <<>>
    /\ effect' = <<EffectSetEnabled(effect[1], enabled), effect[2]>>
    /\ lastCall' = Call("SetEnabled", effect[1].m_type, enabled)
    /\ passes' = <<>> /\ releases' = 0
    /\ resources' = NoResources /\ before' = <<>>
    /\ UNCHANGED <<mgrvars, crashed>>

\* One call Apply makes on the device context or on a member.
Step(call, arg) == [call |-> call, arg |-> arg]

\* Mutant of ApplySteps: the closing PSSetShaderResources(0, 1, &nullSRV)
\* is left out.
ApplyStepsNoUnbind(e, context, inputTexture, outputTarget) ==
    IF ~ApplyActs(e, context, inputTexture, outputTarget) THEN <<>>
    ELSE <<Step("UpdateParameterBuffer", "params"),
           Step("OMSetRenderTargets", outputTarget),
           Step("RSSetViewports", "m_width, m_height"),
           Step("Bind", "m_vertexShader"),
           Step("Bind", "m_pixelShader"),
           Step("PSSetShaderResources", inputTexture),
           Step("PSSetConstantBuffers", "m_parameterBuffer"),
           Step("DrawFullscreenQuad", "context")>>

\* The statements of PostProcessEffect_Base::Apply in program order: the
\* calls it makes when no pointer it dereferences is null, none when its
\* guard returns at once.
ApplySteps(e, context, inputTexture, outputTarget) ==
    IF ~ApplyActs(e, context, inputTexture, outputTarget) THEN <<>>
    ELSE <<Step("UpdateParameterBuffer", "params"),
           Step("OMSetRenderTargets", outputTarget),
           Step("RSSetViewports", "m_width, m_height"),
           Step("Bind", "m_vertexShader"),
           Step("Bind", "m_pixelShader"),
           Step("PSSetShaderResources", inputTexture),
           Step("PSSetConstantBuffers", "m_parameterBuffer"),
           Step("DrawFullscreenQuad", "context"),
           Step("PSSetShaderResources", "null")>>

\* The number of steps made when the process dies at the first null shader
\* pointer: the Bind through it is the last.
CrashPoint(e) == IF ~e.m_vertexShader THEN 4 ELSE 5

\* effect.Apply(context, inputTexture, outputTarget, params).  Apply writes
\* no member of the instance; past its guard it dereferences both shader
\* pointers.
EffectApply(context, inputTexture, outputTarget, params) ==
    /\ ~crashed
    /\ effect # <<>>
    /\ releases' = 0 /\ resources' = NoResources /\ before' = <<>>
    /\ UNCHANGED <<mgrvars, effect>>
    /\ LET steps == ApplySteps(effect[1], context, inputTexture, outputTarget)
           call(done) ==
              [op |-> "Apply", effect |-> effect[1].m_type,
               flag |-> context /\ inputTexture # "null"
                                /\ outputTarget # "null",
               steps |-> done]
       IN IF ~ApplyActs(effect[1], context, inputTexture, outputTarget)
          THEN /\ passes' = <<>> /\ UNCHANGED crashed
               /\ lastCall' = call(steps)
          ELSE \E width \in ReadWidth(effect[1]) :
               IF ApplyDerefsNull(effect[1])
               THEN \E ub \in {"crash", "proceed"} :
                       /\ crashed' = (ub = "crash")
                       /\ passes' = IF ub = "crash" THEN <<>>
                                    ELSE <<Pass(effect[1], inputTexture,
                                                outputTarget, params, width)>>
                       /\ lastCall' =
                             call(IF ub = "crash"
                                  THEN SubSeq(steps, 1, CrashPoint(effect[1]))
                                  ELSE steps)
               ELSE /\ passes' = <<Pass(effect[1], inputTexture, outputTarget,
                                        params, width)>>
                    /\ lastCall' = call(steps)
                    /\ UNCHANGED crashed

\* effect.Shutdown()
EffectShut ==
    /\ ~crashed
    /\ effect # <<>>
    /\ effect' = <<EffectShutdown(effect[1]),
                    [effect[2] EXCEPT !.released =
                        @ + EffectShutdownReleases(effect[1])]>>
    /\ releases' = EffectShutdownReleases(effect[1])
    /\ lastCall' = Call("Effect::Shutdown", effect[1].m_type, FALSE)
    /\ passes' = <<>>
    /\ resources' = NoResources /\ before' = <<>>
    /\ UNCHANGED <<mgrvars, crashed>>

NextEffect ==
    \/ \E type \in EffectTypes : EffectConstruct(type)
    \/ \E device \in BOOLEAN, size \in EffectSizes, fail \in EffectFailures :
          EffectInit(device, size[1], size[2], fail)
    \/ \E enabled \in BOOLEAN : EffectEnable(enabled)
    \/ \E args \in ProcessArgs, params \in ParamValues :
          EffectApply(args[1], args[2], args[3], params)
    \/ EffectShut

SpecEffect == Init /\ [][NextEffect]_vars

\* ------------------------------------------------------------------
\* The manager with resolution changes: the operations of Next on one
\* effect, two resolutions of unequal width and height, and
\* ResizeRenderTargets.
ResizeSizes == {<<1, 2>>, <<2, 1>>}
ResizeEffects == {"Bloom"}

\* Which creation call of the new pair fails in ResizeRenderTargets: 0
\* none, 4 the second texture.
ResizeFailures == {0, 4}

NextResize ==
    \/ \E device \in BOOLEAN, size \in ResizeSizes, fail \in InitFailures :
          Initialize(device, size[1], size[2], fail)
    \/ Shutdown
    \/ \E device \in BOOLEAN, size \in ResizeSizes, fail \in ResizeFailures :
          ResizeRenderTargets(device, size[1], size[2], fail)
    \/ \E effectType \in ResizeEffects : AddEffect(effectType)
    \/ \E effectType \in ResizeEffects : RemoveEffect(effectType)
    \/ \E effectType \in ResizeEffects, enabled \in BOOLEAN :
          SetEffectEnabled(effectType, enabled)
    \/ \E params \in ParamValues : SetEffectParameters(params)
    \/ \E args \in ProcessArgs : Process(args[1], args[2], args[3])

SpecResize == Init /\ [][NextResize]_vars

\* ------------------------------------------------------------------
\* The manager called with invalid resolutions: the operations of Next on
\* one effect, with a zero width and a negative height among the
\* resolutions.  ID3D11Device::CreateTexture2D rejects a Width or Height
\* outside 1..16384 (a negative int is a huge UINT), so for those the first
\* creation call of CreateRenderTargets is the one that fails.
ArgSizes == {<<1, 1>>, <<0, 1>>, <<1, -1>>}
ArgEffects == {"Bloom"}

ValidSize(width, height) == width >= 1 /\ height >= 1

NextArgs ==
    \/ \E device \in BOOLEAN, size \in ArgSizes :
          \E fail \in IF ValidSize(size[1], size[2]) THEN InitFailures ELSE {1} :
             Initialize(device, size[1], size[2], fail)
    \/ Shutdown
    \/ \E effectType \in ArgEffects : AddEffect(effectType)
    \/ \E effectType \in ArgEffects : RemoveEffect(effectType)
    \/ \E effectType \in ArgEffects, enabled \in BOOLEAN :
          SetEffectEnabled(effectType, enabled)
    \/ \E params \in ParamValues : SetEffectParameters(params)
    \/ \E args \in ProcessArgs : Process(args[1], args[2], args[3])

SpecArgs == Init /\ [][NextArgs]_vars

\* ==================================================================
\* Vocabulary of the properties
\* ==================================================================
\* The state was produced by a Process call whose three arguments were valid.
ProcessedValid == lastCall.op = "Process" /\ lastCall.flag

\* Indices of the Chain Order List whose entry has an enabled instance.
EnabledIdx(order, effects) ==
    {i \in 1..Len(order) :
        order[i] \in DOMAIN effects /\ effects[order[i]].m_enabled}

MaxOf(S) == CHOOSE x \in S : \A y \in S : y <= x

\* Number of occurrences of x in seq.
Count(seq, x) == Cardinality({i \in 1..Len(seq) : seq[i] = x})

\* The (effect, input, output) triples of a sequence of passes.
Pairs(ps) ==
    [k \in 1..Len(ps) |-> <<ps[k].effect, ps[k].input, ps[k].output>>]

\* Initialize has completed: device, both surfaces with their views and
\* the sampler exist.
ManagerInitialized ==
    /\ m_device
    /\ m_renderTarget1 /\ m_renderTargetView1 /\ m_shaderResourceView1
    /\ m_renderTarget2 /\ m_renderTargetView2 /\ m_shaderResourceView2
    /\ m_samplerState

\* The Chain Order List without its disabled entries.
RECURSIVE WithoutDisabled(_, _)
WithoutDisabled(order, effects) ==
    IF order = <<>> THEN <<>>
    ELSE IF Head(order) \in DOMAIN effects /\ ~effects[Head(order)].m_enabled
         THEN WithoutDisabled(Tail(order), effects)
         ELSE <<Head(order)>> \o WithoutDisabled(Tail(order), effects)

\* ==================================================================
\* C1..C10
\* ==================================================================

\* C1: after a Process call with valid arguments on a chain with at least
\* one enabled entry, the last pass is the last enabled entry of the Chain
\* Order List, it wrote the final output, and the final output was written
\* exactly once.
C1_LastEnabledWritesFinal ==
    (ProcessedValid /\ EnabledIdx(m_effectOrder, m_effects) # {}) =>
        /\ passes # <<>>
        /\ passes[Len(passes)].effect =
              m_effectOrder[MaxOf(EnabledIdx(m_effectOrder, m_effects))]
        /\ passes[Len(passes)].output = "final"
        /\ Cardinality({k \in 1..Len(passes) : passes[k].output = "final"}) = 1

\* C2: after a Process call with valid arguments on a non-empty chain whose
\* entries are all disabled, exactly one pass was issued: a copy from the
\* input image to the final output.
C2_AllDisabledCopies ==
    (/\ ProcessedValid
     /\ m_effectOrder # <<>>
     /\ \A i \in 1..Len(m_effectOrder) :
           /\ m_effectOrder[i] \in DOMAIN m_effects
           /\ ~m_effects[m_effectOrder[i]].m_enabled) =>
        /\ Len(passes) = 1
        /\ passes[1].input = "input"
        /\ passes[1].output = "final"

\* C3: after a Process call with valid arguments on an initialized manager
\* with no active effect, exactly one pass was issued, a copy that reads
\* the input and writes the final output; no pass touches RT1 or RT2.
C3_EmptyChainPassthrough ==
    (ProcessedValid /\ ManagerInitialized /\ DOMAIN m_effects = {}) =>
        /\ Len(passes) = 1
        /\ Pairs(passes) = << <<"None", "input", "final">> >>

\* The passes Process is to issue for a chain: the copy for an empty chain,
\* the loop otherwise.
ChainPairs(order, effects) ==
    IF order = <<>> THEN << <<"None", "input", "final">> >>
    ELSE Pairs(ProcessLoop(order, effects, 1, "input", TRUE, "final"))

\* C4: after a Process call with valid arguments on an initialized manager,
\* the passes issued are the passes of the chain with its disabled entries
\* removed.
C4_DisabledTransparent ==
    (ProcessedValid /\ ManagerInitialized /\ m_effectOrder # <<>>) =>
        Pairs(passes) =
            ChainPairs(WithoutDisabled(m_effectOrder, m_effects), m_effects)

\* C5: after a Process call that ran the chain, the first pass read the
\* original input and every later pass read the surface the pass before it
\* wrote.
C5_InputChaining ==
    (ProcessedValid /\ m_effectOrder # <<>> /\ passes # <<>>) =>
        /\ passes[1].input = "input"
        /\ \A k \in 2..Len(passes) : passes[k].input = passes[k - 1].output

\* C6: AddEffect(D) called right after an AddEffect(D) that left D active
\* changes nothing in the chain, and D then has one instance and occurs once
\* in the Chain Order List.
C6_IdempotentAdd ==
    [][\A D \in EffectTypes :
          (/\ lastCall.op = "AddEffect" /\ lastCall.effect = D
           /\ D \in DOMAIN m_effects
           /\ AddEffect(D)) =>
             /\ UNCHANGED chainvars
             /\ D \in DOMAIN m_effects'
             /\ Count(m_effectOrder', D) = 1]_vars

\* C7: SetEffectEnabled(B, false) followed at once by SetEffectEnabled(B,
\* true) leaves the Chain Order List, the active set and every other
\* instance as they were before the two calls; if B was enabled before,
\* the whole chain is as before and Process issues the same passes.
C7_ToggleRestores ==
    \A B \in EffectTypes :
       (lastCall = Call("SetEffectEnabled", B, TRUE) /\ before # <<>>) =>
          LET was == before[1] IN
          /\ m_effectOrder = was.m_effectOrder
          /\ DOMAIN m_effects = DOMAIN was.m_effects
          /\ \A D \in DOMAIN m_effects \ {B} : m_effects[D] = was.m_effects[D]
          /\ (B \in DOMAIN was.m_effects /\ was.m_effects[B].m_enabled) =>
                /\ m_effects = was.m_effects
                /\ ChainPairs(m_effectOrder, m_effects) =
                      ChainPairs(was.m_effectOrder, was.m_effects)

\* C7 witness: B, the middle entry of a three-effect chain with all entries
\* enabled, has just been disabled and re-enabled.
C7_Witness ==
    /\ lastCall.op = "SetEffectEnabled" /\ lastCall.flag /\ before # <<>>
    /\ Len(m_effectOrder) = 3
    /\ m_effectOrder[2] = lastCall.effect
    /\ m_effectOrder[1] # m_effectOrder[2] /\ m_effectOrder[3] # m_effectOrder[2]
    /\ \A i \in 1..3 : /\ m_effectOrder[i] \in DOMAIN m_effects
                       /\ m_effects[m_effectOrder[i]].m_enabled
    /\ before[1].m_effects[lastCall.effect].m_enabled

\* C8: the Chain Order List holds exactly the active descriptors, each once
\* (their insertion order), and the passes of a Process call are entries of
\* increasing index of it, none applied twice.
C8_StrictOrder ==
    /\ \A D \in EffectTypes :
          Count(m_effectOrder, D) = IF D \in DOMAIN m_effects THEN 1 ELSE 0
    /\ (ProcessedValid /\ m_effectOrder # <<>>) =>
          \A j, k \in 1..Len(passes) :
             j < k => passes[j].effect # passes[k].effect

\* C9: RemoveEffect(D) with D not in the active set leaves the Chain Order
\* List, the active-effect mapping with every enabled flag, the Parameter
\* Block and the intermediate surfaces unchanged.
C9_NoOpRemove ==
    (lastCall.op = "RemoveEffect"
     /\ lastCall.effect \notin DOMAIN before[1].m_effects) =>
        /\ m_effectOrder = before[1].m_effectOrder
        /\ m_effects = before[1].m_effects
        /\ m_parameters = before[1].m_parameters
        /\ rtvars = before[1].rt

\* C9 witness: RemoveEffect(D) was called for a D that is in no active
\* instance, on a chain that has active effects.
C9_Witness ==
    /\ lastCall.op = "RemoveEffect"
    /\ lastCall.effect \notin DOMAIN before[1].m_effects
    /\ DOMAIN m_effects # {}
    /\ m_effectOrder # <<>>

\* C10: RemoveEffect(D) with D active releases the instance's parameter
\* buffer exactly once, leaves D neither in the active-effect mapping nor in
\* the Chain Order List, and keeps the order and the instances of all other
\* entries.
C10_RemoveActive ==
    (lastCall.op = "RemoveEffect"
     /\ lastCall.effect \in DOMAIN before[1].m_effects) =>
        LET D == lastCall.effect
            was == before[1] IN
        /\ releases = 1
        /\ D \notin DOMAIN m_effects
        /\ Count(m_effectOrder, D) = 0
        /\ m_effectOrder = SelectSeq(was.m_effectOrder, LAMBDA x : x # D)
        /\ \A E \in DOMAIN was.m_effects \ {D} :
              E \in DOMAIN m_effects /\ m_effects[E] = was.m_effects[E]

\* ==================================================================
\* C11..C20
\* ==================================================================

\* C11: after an AddEffect(D) whose new instance failed to initialize (a
\* shader or the parameter buffer could not be created, or the manager has
\* no device), D is not appended to the Chain Order List, no instance is
\* stored for D, and the chain, the Parameter Block and the intermediate
\* surfaces are as they were before the call.
C11_AddFailureContained ==
    (/\ lastCall.op = "AddEffect" /\ ~lastCall.flag
     /\ lastCall.effect \notin DOMAIN before[1].m_effects) =>
        /\ m_effectOrder = before[1].m_effectOrder
        /\ lastCall.effect \notin DOMAIN m_effects
        /\ m_effects = before[1].m_effects
        /\ m_parameters = before[1].m_parameters
        /\ rtvars = before[1].rt

\* C11 witness: on an initialized manager with a non-empty chain, an
\* AddEffect(D) for a D not yet active failed.
C11_Witness ==
    /\ lastCall.op = "AddEffect" /\ ~lastCall.flag
    /\ lastCall.effect \notin DOMAIN before[1].m_effects
    /\ ManagerInitialized
    /\ m_effectOrder # <<>> /\ DOMAIN m_effects # {}

\* An instance whose Initialize ran to its `return true`.
FullyInitialized(e) ==
    e.m_vertexShader /\ e.m_pixelShader /\ e.m_parameterBuffer

\* C12: in every state, every instance in the active-effect mapping has its
\* vertex shader, pixel shader and parameter buffer; and no instance whose
\* Initialize failed is kept by the manager or has Apply called on it: the
\* copy effect that Process applied for an empty chain is fully initialized
\* too.
C12_AllOrNothing ==
    /\ \A D \in DOMAIN m_effects : FullyInitialized(m_effects[D])
    /\ copyEffect # <<>> => FullyInitialized(copyEffect[1])
    /\ (ProcessedValid /\ m_effectOrder = <<>>) =>
          (copyEffect # <<>> /\ FullyInitialized(copyEffect[1]))

\* C13: in every pass issued by Process, the image read and the surface
\* written are different resources ("input", "final", "RT1" and "RT2" are
\* four distinct resources).
C13_NoReadWriteHazard ==
    \A k \in 1..Len(passes) : passes[k].input # passes[k].output

\* C13 witness: Process ran a chain of three enabled effects on an
\* initialized manager; the middle pass read RT1 and wrote RT2.
C13_Witness ==
    /\ ProcessedValid /\ ManagerInitialized
    /\ Len(passes) = 3
    /\ passes[2].input = "RT1" /\ passes[2].output = "RT2"

\* The operations on the chain.
ChainOps == {"AddEffect", "RemoveEffect", "SetEffectEnabled", "Process"}

\* C14: an AddEffect, RemoveEffect, SetEffectEnabled or Process call
\* creates, releases and loses no intermediate surface and no view, and
\* leaves the seven members as the call found them: the two surfaces made
\* by Initialize stay the only ones whatever the length of the chain, and
\* every pass of Process writes RT1, RT2 or the final output.
C14_PingPongBound ==
    lastCall.op \in ChainOps =>
        /\ resources = NoResources
        /\ before # <<>> => rtvars = before[1].rt
        /\ \A k \in 1..Len(passes) :
              passes[k].output \in {"RT1", "RT2", "final"}

\* C14 witness: Process ran a chain of three enabled effects on an
\* initialized manager, writing RT1, RT2 and the final output.
C14_Witness ==
    /\ ProcessedValid /\ ManagerInitialized
    /\ Len(m_effectOrder) = 3 /\ Len(passes) = 3
    /\ resources = NoResources
    /\ {passes[k].output : k \in 1..3} = {"RT1", "RT2", "final"}

\* C15: after a successful ResizeRenderTargets(device, w2, h2), both
\* intermediate textures have Width w2 and Height h2, every texture and view
\* of the previous pair has been released and none was lost, and the pair
\* consists of two live surfaces with their views.
C15_ResizeInvalidation ==
    (lastCall.op = "ResizeRenderTargets" /\ lastCall.flag) =>
        /\ textureSize.m_renderTarget1 = <<lastCall.width, lastCall.height>>
        /\ textureSize.m_renderTarget2 = <<lastCall.width, lastCall.height>>
        /\ \A i \in 1..6 : before[1].rt[i] => Members[i] \in resources.released
        /\ resources.lost = {}
        /\ \A i \in 1..6 : rtvars[i]

\* C15 witness: a manager with a full pair of one resolution was resized to
\* another resolution.
C15_Witness ==
    /\ lastCall.op = "ResizeRenderTargets" /\ lastCall.flag
    /\ \A i \in 1..6 : before[1].rt[i]
    /\ before[1].rt[8].m_renderTarget1 # textureSize.m_renderTarget1
    /\ lastCall.width # lastCall.height

\* The Intermediate Surface Pair: both textures with their four views, or
\* nothing.
PairFull == \A i \in 1..6 : rtvars[i]
PairEmpty == \A i \in 1..6 : ~rtvars[i]

\* C16: in every state the pair is full or empty; and after an Initialize
\* in which a creation call of the pair failed, the members made before the
\* failure have been released and the pair is empty.
C16_AtomicPair ==
    /\ PairFull \/ PairEmpty
    /\ (/\ lastCall.op = "Initialize" /\ ~lastCall.flag
        /\ resources.created # {}
        /\ ~(Named(1..6) \subseteq resources.created)) => PairEmpty

\* C17: PostProcessManager::Initialize with a null device or a width or
\* height below 1 returns false, creates nothing and changes nothing;
\* PostProcessEffect_Base::Initialize, which AddEffect calls with m_device,
\* m_width and m_height for an effect not yet stored, does the same, so the
\* effect is not added; Process with a null argument issues no pass and
\* changes nothing; and no pass is issued by an Apply with a null input or
\* output.
C17_InvalidArgumentsRejected ==
    [][/\ (/\ lastCall'.op = "Initialize"
           /\ (~lastCall'.device
               \/ ~ValidSize(lastCall'.width, lastCall'.height))) =>
             /\ ~lastCall'.flag
             /\ resources' = NoResources
             /\ UNCHANGED <<m_device, m_width, m_height, rtvars, chainvars,
                            m_parameters>>
       /\ (/\ lastCall'.op = "AddEffect"
           /\ lastCall'.effect \notin DOMAIN m_effects
           /\ (~m_device \/ ~ValidSize(m_width, m_height))) =>
             /\ ~lastCall'.flag
             /\ UNCHANGED chainvars
       /\ (lastCall'.op = "Process" /\ ~lastCall'.flag) =>
             /\ passes' = <<>>
             /\ UNCHANGED <<m_device, m_width, m_height, rtvars, chainvars,
                            m_parameters, copyEffect>>
       /\ \A k \in 1..Len(passes') :
             passes'[k].input # "null" /\ passes'[k].output # "null"]_vars

\* The entries of the Chain Order List that have an enabled instance, in
\* list order.
RECURSIVE EnabledEntries(_, _)
EnabledEntries(order, effects) ==
    IF order = <<>> THEN <<>>
    ELSE IF Head(order) \in DOMAIN effects /\ effects[Head(order)].m_enabled
         THEN <<Head(order)>> \o EnabledEntries(Tail(order), effects)
         ELSE EnabledEntries(Tail(order), effects)

\* C18: after a Process call with valid arguments on an initialized manager
\* whose Chain Order List has an entry without an instance, the process is
\* alive, the enabled entries were all applied in list order, the first pass
\* read the input, every later pass read what the pass before it wrote, and
\* the last pass wrote the final output.
C18_BestEffort ==
    (/\ ProcessedValid /\ ManagerInitialized
     /\ \E i \in 1..Len(m_effectOrder) :
           m_effectOrder[i] \notin DOMAIN m_effects) =>
        /\ ~crashed
        /\ EnabledIdx(m_effectOrder, m_effects) # {} =>
              [k \in 1..Len(passes) |-> passes[k].effect] =
                  EnabledEntries(m_effectOrder, m_effects)
        /\ passes # <<>>
        /\ passes[1].input = "input"
        /\ \A k \in 2..Len(passes) : passes[k].input = passes[k - 1].output
        /\ passes[Len(passes)].output = "final"

\* C19: a Process call leaves the Parameter Block as it was when the call
\* began, and every pass it issued was handed that Parameter Block (looked
\* at on an initialized manager whose copy effect, if made, is usable).
C19_ParametersReadOnly ==
    (/\ lastCall.op = "Process" /\ ManagerInitialized
     /\ copyEffect # <<>> => FullyInitialized(copyEffect[1])) =>
        /\ m_parameters = before[1].m_parameters
        /\ \A k \in 1..Len(passes) : passes[k].params = before[1].m_parameters

\* C19 as amended: a Process call leaves the Parameter Block as it was when
\* the call began; every pass of the chain was handed that Parameter Block,
\* and the passthrough copy was handed a default-constructed one.
C19_ChainParametersReadOnly ==
    lastCall.op = "Process" =>
        /\ m_parameters = before[1].m_parameters
        /\ \A k \in 1..Len(passes) :
              passes[k].params = IF passes[k].effect = "None"
                                 THEN DefaultParams
                                 ELSE before[1].m_parameters

\* C19 witness: with a Parameter Block that is not the default one, Process
\* ran a chain of at least two passes.
C19_Witness ==
    /\ ProcessedValid
    /\ m_parameters # DefaultParams
    /\ Len(passes) >= 2
    /\ passes[1].effect # "None"

\* C20: an Apply call on a disabled instance issues no pass (no buffer
\* update, no binding, no draw), dereferences nothing and leaves the
\* instance as it was.
C20_DisabledApplyNoOp ==
    [][(lastCall'.op = "Apply" /\ effect # <<>> /\ ~effect[1].m_enabled) =>
          /\ passes' = <<>>
          /\ UNCHANGED <<effect, crashed>>]_vars

\* C20 witness: Apply was called with valid arguments on a disabled, fully
\* initialized instance.
C20_Witness ==
    /\ lastCall.op = "Apply" /\ lastCall.flag
    /\ effect # <<>>
    /\ ~effect[1].m_enabled /\ FullyInitialized(effect[1])

\* ==================================================================
\* C21..C30
\* ==================================================================

\* C21: however many times Shutdown is called on an instance, its parameter
\* buffer has been released at most once and never more often than it was
\* created; after every Shutdown call the buffer that was created has been
\* released once, the instance holds no buffer and no shader, a further
\* Shutdown would release nothing and leave the instance as it is, and so
\* would the destructor's.
C21_ShutdownIdempotent ==
    effect # <<>> =>
        /\ effect[2].released <= effect[2].created
        /\ effect[2].released <= 1
        /\ lastCall.op = "Effect::Shutdown" =>
              /\ effect[2].released = effect[2].created
              /\ releases <= 1
              /\ ~effect[1].m_parameterBuffer
              /\ ~effect[1].m_vertexShader /\ ~effect[1].m_pixelShader
              /\ EffectShutdown(effect[1]) = effect[1]
              /\ EffectShutdownReleases(effect[1]) = 0
              /\ DestroyReleases(effect[1]) = 0

\* C21 witness: Shutdown was called again on an instance whose parameter
\* buffer an earlier Shutdown had released.
C21_Witness ==
    /\ effect # <<>>
    /\ lastCall.op = "Effect::Shutdown"
    /\ effect[2].created = 1 /\ effect[2].released = 1
    /\ releases = 0

\* The passes of ps that wrote an intermediate surface.
Intermediate(ps) == SelectSeq(ps, LAMBDA p : p.output \in {"RT1", "RT2"})

At(steps, call, arg) ==
    {i \in 1..Len(steps) : steps[i] = Step(call, arg)}

\* What texture slot 0 of the pixel shader stage holds after the steps on a
\* context that held `bound` in it.
RECURSIVE Slot0After(_, _)
Slot0After(steps, bound) ==
    IF steps = <<>> THEN bound
    ELSE Slot0After(Tail(steps),
                    IF Head(steps).call = "PSSetShaderResources"
                    THEN Head(steps).arg ELSE bound)

\* C23: an Apply call that was not a no-op, on an instance with both its
\* shaders, made each of these calls once and in this order: parameter
\* buffer update, output surface bound as render target, input image bound
\* to texture slot 0, parameter buffer bound, full-screen draw, texture
\* slot 0 unbound; whatever slot 0 held before, it holds null on return.
\* An Apply that was a no-op made no call.
C23_ApplyStepOrder ==
    (lastCall.op = "Apply" /\ ~ApplyDerefsNull(effect[1])) =>
        LET steps == lastCall.steps IN
        IF passes = <<>> THEN steps = <<>>
        ELSE LET update == At(steps, "UpdateParameterBuffer", "params")
                 target == At(steps, "OMSetRenderTargets", passes[1].output)
                 texture == At(steps, "PSSetShaderResources", passes[1].input)
                 buffer == At(steps, "PSSetConstantBuffers", "m_parameterBuffer")
                 draw == At(steps, "DrawFullscreenQuad", "context")
                 unbind == At(steps, "PSSetShaderResources", "null")
                 chain == <<update, target, texture, buffer, draw, unbind>>
             IN /\ \A k \in 1..6 : Cardinality(chain[k]) = 1
                /\ \A k \in 1..5 :
                      \A i \in chain[k], j \in chain[k + 1] : i < j
                /\ \A bound \in {"null", "input", "RT1", "RT2"} :
                      Slot0After(steps, bound) = "null"

\* C23 witness: Apply with valid arguments ran to its end on an enabled,
\* fully initialized instance.
C23_Witness ==
    /\ lastCall.op = "Apply" /\ lastCall.flag
    /\ FullyInitialized(effect[1]) /\ effect[1].m_enabled
    /\ Len(passes) = 1
    /\ lastCall.steps # <<>>

\* ------------------------------------------------------------------
\* The parameter buffer: its size, what UpdateParameterBuffer copies into
\* it and where the pixel programs read it.

\* Largest sizeof(PostProcessParams) looked at.
MaxParamsSize == 128

\* struct PostProcessParams: its members in declaration order with their
\* sizes in bytes (float and int 4, XMFLOAT3 12; every member is 4-byte
\* aligned, so there is no padding).
PostProcessParams ==
    << <<"intensity", 4>>, <<"threshold", 4>>, <<"radius", 4>>,
       <<"sigma", 4>>, <<"colorTint", 12>>, <<"contrast", 4>>,
       <<"brightness", 4>>, <<"saturation", 4>>, <<"gamma", 4>>,
       <<"bloomThreshold", 4>>, <<"bloomIntensity", 4>>,
       <<"bloomBlurPasses", 4>>, <<"exposure", 4>>, <<"whitePoint", 4>>,
       <<"fxaaSpanMax", 4>>, <<"fxaaReduceMin", 4>>, <<"fxaaReduceMul", 4>>,
       <<"vignetteRadius", 4>>, <<"vignetteSoftness", 4>>,
       <<"vignetteColor", 12>> >>

\* The cbuffer at register(b0) of each pixel program: its variables in
\* declaration order with their sizes in bytes (float 4, float2 8, float3 12).
GRAYSCALE_PS == << <<"intensity", 4>>, <<"padding", 12>> >>
BLOOM_PS == << <<"bloomThreshold", 4>>, <<"bloomIntensity", 4>>, <<"padding", 8>> >>
TONE_MAPPING_PS == << <<"exposure", 4>>, <<"whitePoint", 4>>, <<"padding", 8>> >>
VIGNETTE_PS ==
    << <<"vignetteRadius", 4>>, <<"vignetteSoftness", 4>>, <<"padding", 8>> >>
COPY_PS == <<>>

\* PostProcessEffect_Base::GetPixelShaderCode, as far as the cbuffer goes.
GetPixelShaderCode(type) ==
    CASE type = "Grayscale" -> GRAYSCALE_PS
      [] type = "Bloom" -> BLOOM_PS
      [] type = "ToneMapping" -> TONE_MAPPING_PS
      [] type = "Vignette" -> VIGNETTE_PS
      [] OTHER -> COPY_PS

\* The effect kinds whose pixel program declares a cbuffer of Parameter
\* Block fields.
ShaderKinds == {"Grayscale", "Bloom", "ToneMapping", "Vignette"}

\* sizeof of a C++ struct of 4-byte aligned members.
RECURSIVE SizeOf(_)
SizeOf(members) ==
    IF members = <<>> THEN 0 ELSE Head(members)[2] + SizeOf(Tail(members))

\* offsetof(struct, name) for a struct of 4-byte aligned members: the sizes
\* of the members declared before it; -1 when there is no such member.
RECURSIVE OffsetOf(_, _)
OffsetOf(members, name) ==
    IF members = <<>> THEN -1
    ELSE IF Head(members)[1] = name THEN 0
    ELSE LET rest == OffsetOf(Tail(members), name)
         IN IF rest = -1 THEN -1 ELSE Head(members)[2] + rest

\* HLSL constant-buffer packing: variables are laid out in declaration
\* order from byte `at` and one that would straddle a 16-byte register
\* starts the next register.  The byte offset of `name`, -1 when absent.
RECURSIVE PackOffset(_, _, _)
PackOffset(variables, name, at) ==
    IF variables = <<>> THEN -1
    ELSE LET size == Head(variables)[2]
             start == IF (at % 16) + size > 16
                      THEN ((at \div 16) + 1) * 16 ELSE at
         IN IF Head(variables)[1] = name THEN start
            ELSE PackOffset(Tail(variables), name, start + size)

\* The member of the struct whose bytes lie at byte `offset` of the buffer
\* after memcpy(pData, &params, sizeof(PostProcessParams)); "none" past the
\* end of the copy.
RECURSIVE MemberAt(_, _)
MemberAt(members, offset) ==
    IF members = <<>> THEN "none"
    ELSE IF offset < Head(members)[2] THEN Head(members)[1]
    ELSE MemberAt(Tail(members), offset - Head(members)[2])

\* The pixel program of an effect of kind `type` reads its cbuffer variable
\* `variable` from the buffer UpdateParameterBuffer filled.
PixelShaderRead(type, variable) ==
    /\ ~crashed
    /\ lastCall' =
          LET offset == PackOffset(GetPixelShaderCode(type), variable, 0)
          IN [op |-> "PixelShaderRead", effect |-> type, flag |-> TRUE,
              variable |-> variable, offset |-> offset,
              member |-> MemberAt(PostProcessParams, offset)]
    /\ passes' = <<>> /\ releases' = 0
    /\ resources' = NoResources /\ before' = <<>>
    /\ UNCHANGED <<mgrvars, effect, crashed>>

\* Mutant of ParameterBufferSize: the size is rounded down.
ParameterBufferSizeRoundsDown(size) == (size \div 16) * 16

\* The value of PostProcessEffect_Base::GetParameterBufferSize() for
\* sizeof(PostProcessParams) = size.  The arithmetic is size_t and the
\* result is returned as a 32-bit UINT; for the sizes up to MaxParamsSize
\* neither wraps.
ParameterBufferSize(size) == ((size + 15) \div 16) * 16

\* GetParameterBufferSize() in a build where sizeof(PostProcessParams) is
\* `size`.
GetParameterBufferSize(size) ==
    /\ ~crashed
    /\ lastCall' = [op |-> "GetParameterBufferSize", effect |-> "None",
                    flag |-> TRUE, size |-> size,
                    result |-> ParameterBufferSize(size)]
    /\ passes' = <<>> /\ releases' = 0
    /\ resources' = NoResources /\ before' = <<>>
    /\ UNCHANGED <<mgrvars, effect, crashed>>

NextBuffer ==
    \/ \E size \in 1..MaxParamsSize : GetParameterBufferSize(size)
    \/ \E type \in ShaderKinds :
          \E k \in 1..Len(GetPixelShaderCode(type)) :
             PixelShaderRead(type, GetPixelShaderCode(type)[k][1])

SpecBuffer == Init /\ [][NextBuffer]_vars

\* C24: the bytes a pixel program reads for a cbuffer variable other than
\* its padding are the bytes of the Parameter Block member of the same
\* name: the variable's offset in the cbuffer is that member's offset in
\* PostProcessParams.
C24_ShaderReadsOwnFields ==
    (lastCall.op = "PixelShaderRead" /\ lastCall.variable # "padding") =>
        /\ lastCall.offset = OffsetOf(PostProcessParams, lastCall.variable)
        /\ lastCall.member = lastCall.variable

\* C25: GetParameterBufferSize returns the smallest multiple of 16 that is
\* not below the size of the Parameter Block: it is a multiple of 16, at
\* least the number of bytes UpdateParameterBuffer copies, and at most 15
\* more.
C25_BufferSizing ==
    lastCall.op = "GetParameterBufferSize" =>
        /\ lastCall.result % 16 = 0
        /\ lastCall.result >= lastCall.size
        /\ lastCall.result - lastCall.size <= 15

\* C25 witness: the size of the Parameter Block is not a multiple of 16 and
\* the buffer is larger than it.
C25_Witness ==
    /\ lastCall.op = "GetParameterBufferSize"
    /\ lastCall.size % 16 = 1
    /\ lastCall.size > SizeOf(PostProcessParams)
    /\ lastCall.result > lastCall.size

\* The descriptors that occur in a Chain Order List.
Range(seq) == {seq[i] : i \in 1..Len(seq)}

\* C26: in every state the Chain Order List has no duplicates and the set
\* of its descriptors is the key set of the active-effect mapping.
C26_ChainStateConsistent ==
    /\ \A i, j \in 1..Len(m_effectOrder) :
          i # j => m_effectOrder[i] # m_effectOrder[j]
    /\ Range(m_effectOrder) = DOMAIN m_effects

\* C27: after a Process call that went through CopyTexture to the Apply of
\* the copy effect (valid arguments, empty Chain Order List), the copy
\* effect has its two shaders and its parameter buffer, and the process is
\* alive.
C27_CopyEffectUsable ==
    (ProcessedValid /\ m_effectOrder = <<>>) =>
        /\ copyEffect # <<>>
        /\ FullyInitialized(copyEffect[1])
        /\ ~crashed

\* ------------------------------------------------------------------
\* The manager initialized more than once: the operations of Next on one
\* effect with the two resolutions of ResizeSizes.
NextReinit ==
    \/ \E device \in BOOLEAN, size \in ResizeSizes, fail \in InitFailures :
          Initialize(device, size[1], size[2], fail)
    \/ Shutdown
    \/ \E effectType \in ResizeEffects : AddEffect(effectType)
    \/ \E effectType \in ResizeEffects : RemoveEffect(effectType)
    \/ \E effectType \in ResizeEffects, enabled \in BOOLEAN :
          SetEffectEnabled(effectType, enabled)
    \/ \E params \in ParamValues : SetEffectParameters(params)
    \/ \E args \in ProcessArgs : Process(args[1], args[2], args[3])

SpecReinit == Init /\ [][NextReinit]_vars

\* The instance's viewport size is the manager's resolution.
SameResolution(e) == e.m_width = m_width /\ e.m_height = m_height

\* C28: on an initialized manager, every active Effect Instance and the
\* copy effect, once it was made and initialized, hold the manager's
\* current width and height.
C28_ResolutionConsistent ==
    ManagerInitialized =>
        /\ \A D \in DOMAIN m_effects : SameResolution(m_effects[D])
        /\ (copyEffect # <<>> /\ FullyInitialized(copyEffect[1])) =>
              SameResolution(copyEffect[1])

\* C29: no operation loses a texture, view or sampler (overwrites the
\* pointer to a live one without releasing it), no operation releases the
\* parameter buffer of one instance more than once, and after Shutdown
\* none of the manager's seven members is live: what was created has been
\* released exactly once.
C29_ResourceAccounting ==
    /\ resources.lost = {}
    /\ lastCall.op = "RemoveEffect" => releases <= 1
    /\ lastCall.op = "Shutdown" => \A i \in 1..7 : ~rtvars[i]

\* ------------------------------------------------------------------
\* The chain operations with a longer memory: an AddEffect(D) that follows
\* a RemoveEffect(D) at once keeps in `before` the manager as it was when
\* that RemoveEffect began.
AddEffectAfter(effectType) ==
    AddEffectCall(effectType,
                  IF lastCall.op = "RemoveEffect" /\ lastCall.effect = effectType
                  THEN before ELSE Snapshot(effectType))

NextChain ==
    \/ \E device \in BOOLEAN, width \in Widths, height \in Heights,
          fail \in InitFailures : Initialize(device, width, height, fail)
    \/ Shutdown
    \/ \E effectType \in EffectTypes : AddEffectAfter(effectType)
    \/ \E effectType \in EffectTypes : RemoveEffect(effectType)
    \/ \E effectType \in EffectTypes, enabled \in BOOLEAN :
          SetEffectEnabled(effectType, enabled)

SpecChain == Init /\ [][NextChain]_vars

\* seq without the occurrences of x.
Without(seq, x) == SelectSeq(seq, LAMBDA y : y # x)

\* C30: after a successful AddEffect(D), also one that follows a
\* RemoveEffect(D) at once, D is the last entry of the Chain Order List and
\* enabled, and against the manager remembered in `before` (the one the
\* RemoveEffect found, whatever D's position and flag in it) the other
\* entries are in the same relative order and the other instances are the
\* same with the same flags.
C30_RemoveAddResets ==
    (lastCall.op = "AddEffect" /\ lastCall.flag) =>
        LET D == lastCall.effect
            was == before[1]
        IN /\ m_effectOrder[Len(m_effectOrder)] = D
           /\ D \in DOMAIN m_effects /\ m_effects[D].m_enabled
           /\ Without(m_effectOrder, D) = Without(was.m_effectOrder, D)
           /\ DOMAIN m_effects \ {D} = DOMAIN was.m_effects \ {D}
           /\ \A E \in DOMAIN m_effects \ {D} :
                 m_effects[E] = was.m_effects[E]

\* C30 witness: D, disabled and first of a chain of three, was removed and
\* added again at once; it is now last and enabled.
C30_Witness ==
    /\ lastCall.op = "AddEffect" /\ lastCall.flag
    /\ Len(before[1].m_effectOrder) = 3
    /\ before[1].m_effectOrder[1] = lastCall.effect
    /\ lastCall.effect \in DOMAIN before[1].m_effects
    /\ ~before[1].m_effects[lastCall.effect].m_enabled
    /\ Len(m_effectOrder) = 3
    /\ m_effectOrder[3] = lastCall.effect

====
